---- MODULE Spec2Model ----
(***************************************************************************)
(* Model of actix-web-lab's map_response_body middleware                   *)
(* (middleware_map_response_body.rs): the factory MapResBodyMiddleware,    *)
(* the service MapResBodyService and the two-phase future MapResBodyFut,   *)
(* driven by an external executor that polls, wakes and drops futures.     *)
(***************************************************************************)
EXTENDS Integers, Sequences, FiniteSets, TLC

\* ---------------------------------------------------------------- bounds
MaxFactories == 2
MaxServices == 3
MaxRequests == 1

\* the bounds of SpecConc, where requests are in flight together
ConcFactories == 1
ConcServices == 2
ConcRequests == 2

\* the bounds of SpecLive, where the driver is fair
LiveFactories == 2
LiveServices == 2

\* ------------------------------------------------------- values of the model
\* Option<T>: None is the empty sequence, Some(v) the one-element sequence.
None == <<>>
Some(v) == <<v>>
IsSome(o) == Len(o) = 1
Unwrap(o) == o[1]

\* Result<T, Error>
Ok(v) == [tag |-> "Ok", val |-> v]
Err(e) == [tag |-> "Err", val |-> e]

\* Poll<T>
Pending == [tag |-> "Pending", val |-> None]
Ready(v) == [tag |-> "Ready", val |-> v]

\* The mapper functions the model registers: the tests' noop and
\* mutate_body_type, the documentation's append_bytes, and a mapper whose
\* future resolves to Err.
FnKinds == {"noop", "foo", "append", "fail"}

Foo == <<"f", "o", "o">>
Suffix == <<"x">>

\* What the inner-most service (the handler) may answer with.
Heads == {[status |-> "200", headers |-> "h0"], [status |-> "404", headers |-> "h1"]}
Bodies == {<<>>, <<"a">>}
SvcError == [by |-> "svc", ptr |-> 0]
FnError(p) == [by |-> "fn", ptr |-> p]

\* ServiceResponse<B> = (HttpRequest, HttpResponse<B>); HttpResponse<B> =
\* (head, body).
HttpResponse(head, body) == [head |-> head, body |-> body]
Unit == <<"()">>
ServiceResponseNew(req, res) == [req |-> req, res |-> res]
HandlerResults(r) ==
    {Ok(ServiceResponseNew(r, HttpResponse(h, b))) : h \in Heads, b \in Bodies}
        \cup {Err(SvcError)}

VARIABLES
    mappers,    \* the Rc<F> allocations: pointer |-> kind of mapper function
    factories,  \* Seq of MapResBodyMiddleware: [mw_fn |-> pointer]
    services,   \* Seq of MapResBodyService: [service, mw_fn, factory]
    futs,       \* per request: the MapResBodyFut chain the driver holds
    output,     \* per request: what poll returned Ready with, to the driver
    svc_calls,  \* per request, per service (0 = handler): number of calls
    calls,      \* per Rc<F> pointer: the mapper function's call counter
    invoked     \* per request: the chain levels whose mapper ran, in order

vars == <<mappers, factories, services, futs, output, svc_calls, calls, invoked>>

Requests == DOMAIN futs

\* The LocalData extractor (local_data.rs) and the application data it reads.
VARIABLES
    app_data,   \* the request's app_data containers: <<app level, resource level>>
    lookup      \* the last LocalData<T> extraction: type, result, log, response

dvars == <<app_data, lookup>>


\* ------------------------------------------------------------ construction
\* map_response_body: a factory owning a fresh Rc around the mapper.
MapResBodyMiddleware(ptr) == [mw_fn |-> ptr]

\* new_transform taking the first factory's mapper instead of its own
NewTransformResult_FirstFn(f, service) ==
    Ready(Ok([service |-> service, mw_fn |-> factories[1].mw_fn, factory |-> f]))

\* new_transform: Ready(Ok(MapResBodyService { service, mw_fn: Rc::clone })).
NewTransformResult(f, service) ==
    Ready(Ok([service |-> service, mw_fn |-> factories[f].mw_fn, factory |-> f]))

\* A service passed to new_transform is moved into the new service: only
\* services nobody wraps can be wrapped or called from outside.
Wrapped(s) == \E i \in 1..Len(services) : services[i].service = s
TopServices == {s \in 1..Len(services) : ~Wrapped(s)}

\* ------------------------------------------------------------------- call
\* The state of one MapResBodyFut. state is the MapResBodyFutState variant;
\* in Svc the pinned inner future is the level below (level 0: the handler's
\* future); fut, req, res are the fields of the Fn variant. out records what
\* the future returned Ready with.
SvcState(s, mw_fn) ==
    [svc |-> s, mw_fn |-> mw_fn, state |-> "Svc", fut |-> None,
     req |-> None, res |-> None, out |-> None]

NoHandlerFut == [called |-> FALSE, result |-> None]
HandlerFut == [called |-> TRUE, result |-> None]
NoFut == [status |-> "none", svc |-> 0, chain |-> <<>>, hfut |-> NoHandlerFut]

RECURSIVE ServiceCall(_)

\* call that calls the wrapped service a second time
ServiceCall_Twice(s) ==
    IF s = 0
    THEN [chain |-> <<>>, hfut |-> HandlerFut, called |-> <<0>>]
    ELSE LET mw_fn == services[s].mw_fn
             fut == ServiceCall(services[s].service)
         IN [chain |-> Append(fut.chain, SvcState(s, mw_fn)),
             hfut |-> fut.hfut,
             called |-> <<s>> \o fut.called \o fut.called]

\* MapResBodyService::call: clone the Rc, call the wrapped service, and
\* return the future in its Svc state. The result holds the chain of futures
\* (innermost first) and the services called, in call order.
ServiceCall(s) ==
    IF s = 0
    THEN [chain |-> <<>>, hfut |-> HandlerFut, called |-> <<0>>]
    ELSE LET mw_fn == services[s].mw_fn
             fut == ServiceCall(services[s].service)
         IN [chain |-> Append(fut.chain, SvcState(s, mw_fn)),
             hfut |-> fut.hfut,
             called |-> <<s>> \o fut.called]

Count(seq, x) == Cardinality({i \in 1..Len(seq) : seq[i] = x})

\* ------------------------------------------------------------------- poll
\* into_parts that rebuilds the response from its status, losing the headers
IntoParts_LosesHeaders(sres) ==
    [req |-> sres.req,
     res |-> HttpResponse([status |-> sres.res.head.status, headers |-> "h0"], Unit),
     body |-> sres.res.body]

\* into_parts that hands out a default request handle
IntoParts_DefaultReq(sres) ==
    [req |-> 0, res |-> HttpResponse(sres.res.head, Unit), body |-> sres.res.body]

\* ServiceResponse::into_parts followed by HttpResponse::into_parts.
IntoParts(sres) ==
    [req |-> sres.req, res |-> HttpResponse(sres.res.head, Unit), body |-> sres.res.body]

\* set_body that leaves the response as it was
SetBody_Keeps(res, body) == res

\* HttpResponse::set_body
SetBody(res, body) == HttpResponse(res.head, body)

\* the mapper called with an empty body instead of the inner body
MwFnCall_EmptyBody(mw_fn, body, imm) ==
    [mw_fn |-> mw_fn, body |-> <<>>, ready |-> imm, first |-> imm]

\* (this.mw_fn)(body): the mapper's future; imm tells whether it is ready
\* when first polled (first keeps that; ready turns TRUE when it resolves).
MwFnCall(mw_fn, body, imm) ==
    [mw_fn |-> mw_fn, body |-> body, ready |-> imm, first |-> imm]

\* What a mapper's future resolves to.
MapperOutput(kind, ptr, body) ==
    CASE kind = "noop" -> Ok(body)
      [] kind = "foo" -> Ok(Foo)
      [] kind = "append" -> Ok(body \o Suffix)
      [] kind = "fail" -> Err(FnError(ptr))

FnFutPoll(f) ==
    IF f.ready THEN Ready(MapperOutput(mappers[f.mw_fn], f.mw_fn, f.body)) ELSE Pending

RECURSIVE PollFut(_, _, _, _)
RECURSIVE PollSvcArm(_, _, _, _)

\* The handler's future.
PollHandler(c, h) ==
    [chain |-> c, hfut |-> h, inv |-> <<>>,
     res |-> IF IsSome(h.result) THEN Ready(Unwrap(h.result)) ELSE Pending]

\* The Fn arm answering a failed mapper with the stored head and an empty body
PollFnArm_Fallback(k, c, h) ==
    LET p == FnFutPoll(Unwrap(c[k].fut))
    IN IF p.tag = "Pending"
       THEN [chain |-> c, hfut |-> h, inv |-> <<>>, res |-> Pending]
       ELSE LET body == IF p.val.tag = "Err" THEN <<>> ELSE p.val.val
                req == Unwrap(c[k].req)
                res == SetBody(Unwrap(c[k].res), body)
                out == Ok(ServiceResponseNew(req, res))
            IN [chain |-> [c EXCEPT ![k].req = None, ![k].res = None, ![k].out = Some(out)],
                hfut |-> h, inv |-> <<>>, res |-> Ready(out)]

\* The Fn arm putting the future back into Svc when the mapper is not ready
PollFnArm_BackToSvc(k, c, h) ==
    LET p == FnFutPoll(Unwrap(c[k].fut))
    IN IF p.tag = "Pending"
       THEN [chain |-> [c EXCEPT ![k].state = "Svc"], hfut |-> h, inv |-> <<>>,
             res |-> Pending]
       ELSE IF p.val.tag = "Err"
       THEN [chain |-> [c EXCEPT ![k].out = Some(p.val)], hfut |-> h, inv |-> <<>>,
             res |-> Ready(p.val)]
       ELSE LET req == Unwrap(c[k].req)
                res == SetBody(Unwrap(c[k].res), p.val.val)
                out == Ok(ServiceResponseNew(req, res))
            IN [chain |-> [c EXCEPT ![k].req = None, ![k].res = None, ![k].out = Some(out)],
                hfut |-> h, inv |-> <<>>, res |-> Ready(out)]

\* The Fn arm taking req and res before it polls the mapper's future
PollFnArm_TakesEarly(k, c, h) ==
    LET p == FnFutPoll(Unwrap(c[k].fut))
        taken == [c EXCEPT ![k].req = None, ![k].res = None]
    IN IF p.tag = "Pending"
       THEN [chain |-> taken, hfut |-> h, inv |-> <<>>, res |-> Pending]
       ELSE IF p.val.tag = "Err"
       THEN [chain |-> [taken EXCEPT ![k].out = Some(p.val)], hfut |-> h, inv |-> <<>>,
             res |-> Ready(p.val)]
       ELSE IF ~IsSome(c[k].req) \/ ~IsSome(c[k].res)
       THEN [chain |-> c, hfut |-> h, inv |-> <<>>, res |-> [tag |-> "Panic", val |-> None]]
       ELSE LET req == Unwrap(c[k].req)
                res == SetBody(Unwrap(c[k].res), p.val.val)
                out == Ok(ServiceResponseNew(req, res))
            IN [chain |-> [taken EXCEPT ![k].out = Some(out)],
                hfut |-> h, inv |-> <<>>, res |-> Ready(out)]

\* The Fn arm emptying the two slots also when the mapper failed
PollFnArm_TakesOnErr(k, c, h) ==
    LET p == FnFutPoll(Unwrap(c[k].fut))
    IN IF p.tag = "Pending"
       THEN [chain |-> c, hfut |-> h, inv |-> <<>>, res |-> Pending]
       ELSE IF p.val.tag = "Err"
       THEN [chain |-> [c EXCEPT ![k].req = None, ![k].res = None, ![k].out = Some(p.val)],
             hfut |-> h, inv |-> <<>>, res |-> Ready(p.val)]
       ELSE IF ~IsSome(c[k].req) \/ ~IsSome(c[k].res)
       THEN [chain |-> c, hfut |-> h, inv |-> <<>>, res |-> [tag |-> "Panic", val |-> None]]
       ELSE LET req == Unwrap(c[k].req)
                res == SetBody(Unwrap(c[k].res), p.val.val)
                out == Ok(ServiceResponseNew(req, res))
            IN [chain |-> [c EXCEPT ![k].req = None, ![k].res = None, ![k].out = Some(out)],
                hfut |-> h, inv |-> <<>>, res |-> Ready(out)]

\* The Fn arm answering Pending whatever the mapper future says
PollFnArm_Stalls(k, c, h) ==
    [chain |-> c, hfut |-> h, inv |-> <<>>, res |-> Pending]

\* The Fn arm of MapResBodyFut::poll.
PollFnArm(k, c, h) ==
    LET p == FnFutPoll(Unwrap(c[k].fut))
    IN IF p.tag = "Pending"
       THEN [chain |-> c, hfut |-> h, inv |-> <<>>, res |-> Pending]
       ELSE IF p.val.tag = "Err"
       THEN [chain |-> [c EXCEPT ![k].out = Some(p.val)], hfut |-> h, inv |-> <<>>,
             res |-> Ready(p.val)]
       ELSE IF ~IsSome(c[k].req) \/ ~IsSome(c[k].res)
       THEN [chain |-> c, hfut |-> h, inv |-> <<>>, res |-> [tag |-> "Panic", val |-> None]]
       ELSE LET req == Unwrap(c[k].req)
                res == SetBody(Unwrap(c[k].res), p.val.val)
                out == Ok(ServiceResponseNew(req, res))
            IN [chain |-> [c EXCEPT ![k].req = None, ![k].res = None, ![k].out = Some(out)],
                hfut |-> h, inv |-> <<>>, res |-> Ready(out)]

\* The Svc arm replacing the inner layer's error by one of its own
PollSvcArm_MapsErr(k, c, h, imm) ==
    LET in == PollFut(k - 1, c, h, imm)
    IN IF in.res.tag # "Ready"
       THEN in
       ELSE IF in.res.val.tag = "Err"
       THEN [in EXCEPT !.chain[k].out = Some(Err(FnError(c[k].mw_fn))),
                       !.res = Ready(Err(FnError(c[k].mw_fn)))]
       ELSE LET parts == IntoParts(in.res.val.val)
                fut == MwFnCall(c[k].mw_fn, parts.body, imm[k])
                set == [in.chain EXCEPT ![k].state = "Fn", ![k].fut = Some(fut),
                                        ![k].req = Some(parts.req),
                                        ![k].res = Some(parts.res)]
                again == PollFut(k, set, in.hfut, imm)
            IN [again EXCEPT !.inv = in.inv \o <<[k |-> k, mw_fn |-> c[k].mw_fn]>> \o again.inv]

\* The Svc arm calling the mapper a second time when its future is not ready
\* at once
PollSvcArm_Reinvokes(k, c, h, imm) ==
    LET in == PollFut(k - 1, c, h, imm)
    IN IF in.res.tag # "Ready"
       THEN in
       ELSE IF in.res.val.tag = "Err"
       THEN [in EXCEPT !.chain[k].out = Some(in.res.val)]
       ELSE LET parts == IntoParts(in.res.val.val)
                fut == MwFnCall(c[k].mw_fn, parts.body, imm[k])
                set == [in.chain EXCEPT ![k].state = "Fn", ![k].fut = Some(fut),
                                        ![k].req = Some(parts.req),
                                        ![k].res = Some(parts.res)]
                again == PollFut(k, set, in.hfut, imm)
                once == <<[k |-> k, mw_fn |-> c[k].mw_fn]>>
            IN [again EXCEPT !.inv = in.inv \o once
                                       \o (IF again.res.tag = "Pending" THEN once ELSE <<>>)
                                       \o again.inv]

\* The Svc arm calling the mapper (on an empty body) before it propagates
\* the inner layer's error
PollSvcArm_InvokesOnErr(k, c, h, imm) ==
    LET in == PollFut(k - 1, c, h, imm)
    IN IF in.res.tag # "Ready"
       THEN in
       ELSE IF in.res.val.tag = "Err"
       THEN [in EXCEPT !.chain[k].out = Some(in.res.val),
                       !.inv = in.inv \o <<[k |-> k, mw_fn |-> c[k].mw_fn]>>]
       ELSE LET parts == IntoParts(in.res.val.val)
                fut == MwFnCall(c[k].mw_fn, parts.body, imm[k])
                set == [in.chain EXCEPT ![k].state = "Fn", ![k].fut = Some(fut),
                                        ![k].req = Some(parts.req),
                                        ![k].res = Some(parts.res)]
                again == PollFut(k, set, in.hfut, imm)
            IN [again EXCEPT !.inv = in.inv \o <<[k |-> k, mw_fn |-> c[k].mw_fn]>> \o again.inv]

\* The Svc arm returning Pending after it set the Fn state, leaving the first
\* poll of the mapper's future to the driver's next poll
PollSvcArm_NoRepoll(k, c, h, imm) ==
    LET in == PollFut(k - 1, c, h, imm)
    IN IF in.res.tag # "Ready"
       THEN in
       ELSE IF in.res.val.tag = "Err"
       THEN [in EXCEPT !.chain[k].out = Some(in.res.val)]
       ELSE LET parts == IntoParts(in.res.val.val)
                fut == MwFnCall(c[k].mw_fn, parts.body, imm[k])
                set == [in.chain EXCEPT ![k].state = "Fn", ![k].fut = Some(fut),
                                        ![k].req = Some(parts.req),
                                        ![k].res = Some(parts.res)]
            IN [chain |-> set, hfut |-> in.hfut, res |-> Pending,
                inv |-> in.inv \o <<[k |-> k, mw_fn |-> c[k].mw_fn]>>]

\* The Svc arm of MapResBodyFut::poll, with its closing self.poll(cx).
PollSvcArm(k, c, h, imm) ==
    LET in == PollFut(k - 1, c, h, imm)
    IN IF in.res.tag # "Ready"
       THEN in
       ELSE IF in.res.val.tag = "Err"
       THEN [in EXCEPT !.chain[k].out = Some(in.res.val)]
       ELSE LET parts == IntoParts(in.res.val.val)
                fut == MwFnCall(c[k].mw_fn, parts.body, imm[k])
                set == [in.chain EXCEPT ![k].state = "Fn", ![k].fut = Some(fut),
                                        ![k].req = Some(parts.req),
                                        ![k].res = Some(parts.res)]
                again == PollFut(k, set, in.hfut, imm)
            IN [again EXCEPT !.inv = in.inv \o <<[k |-> k, mw_fn |-> c[k].mw_fn]>> \o again.inv]

\* MapResBodyFut::poll of the future at level k (level 0: the handler's).
PollFut(k, c, h, imm) ==
    IF k = 0 THEN PollHandler(c, h)
    ELSE IF c[k].state = "Svc" THEN PollSvcArm(k, c, h, imm)
    ELSE PollFnArm(k, c, h)

\* the mapper call counters after the invocations inv
Counted(inv) ==
    [p \in DOMAIN calls |-> calls[p] + Cardinality({i \in 1..Len(inv) : inv[i].mw_fn = p})]

\* -------------------------------------------------------------- LocalData
\* The types LocalData is registered and requested with, and the values.
Types == {"usize", "u32"}
Values == {1, 10}

\* LocalData::new(item): an Rc around the item, registered under its type.
LocalDataNew(ty, item) == [ty |-> ty, item |-> item]

NoAppData == [ty \in Types |-> None]
NoLookup == [ty |-> "", result |-> None, logged |-> None, status |-> ""]

\* req.app_data::<LocalData<T>>(): the innermost container holding a
\* LocalData<T> answers (test_override_data).
ReqAppData(ty) ==
    IF IsSome(app_data[2][ty]) THEN app_data[2][ty] ELSE app_data[1][ty]

InternalServerError == [by |-> "ErrorInternalServerError", status |-> "500"]

\* from_request that answers with whatever LocalData the request holds
FromRequest_AnyType(ty) ==
    LET held == {u \in Types : IsSome(ReqAppData(u))}
    IN IF held # {}
       THEN [result |-> Ok(Unwrap(ReqAppData(CHOOSE u \in held : u = ty \/ ty \notin held))),
             logged |-> None]
       ELSE [result |-> Err(InternalServerError), logged |-> Some(ty)]

\* LocalData::<T>::from_request: ok(st.clone()), or the debug! line naming the
\* type and err(ErrorInternalServerError).
FromRequest(ty) ==
    LET st == ReqAppData(ty)
    IN IF IsSome(st)
       THEN [result |-> Ok(Unwrap(st)), logged |-> None]
       ELSE [result |-> Err(InternalServerError), logged |-> Some(ty)]

\* App::app_data / Resource::app_data(LocalData::new(item))
AppData(scope, ty, item) ==
    /\ app_data' = [app_data EXCEPT ![scope][ty] = Some(LocalDataNew(ty, item))]
    /\ UNCHANGED lookup

\* A request to a handler taking LocalData<T>: the extractor runs, then the
\* handler answers Ok, or the extractor's error becomes the response.
Extract(ty) ==
    /\ LET got == FromRequest(ty)
       IN lookup' = [ty |-> ty, result |-> Some(got.result), logged |-> got.logged,
                     status |-> IF got.result.tag = "Ok" THEN "200"
                                ELSE got.result.val.status]
    /\ UNCHANGED app_data

\* ------------------------------------------------------------------- state
Init ==
    /\ mappers = <<>>
    /\ factories = <<>>
    /\ services = <<>>
    /\ futs = [r \in 1..MaxRequests |-> NoFut]
    /\ output = [r \in 1..MaxRequests |-> None]
    /\ svc_calls = [r \in 1..MaxRequests |-> [s \in 0..MaxServices |-> 0]]
    /\ calls = [p \in 1..MaxFactories |-> 0]
    /\ invoked = [r \in 1..MaxRequests |-> <<>>]
    /\ app_data = <<NoAppData, NoAppData>>
    /\ lookup = NoLookup

\* map_response_body(mapper_fn)
MapResponseBody(kind) ==
    /\ Len(factories) < MaxFactories
    /\ mappers' = Append(mappers, kind)
    /\ factories' = Append(factories, MapResBodyMiddleware(Len(mappers) + 1))
    /\ UNCHANGED <<services, futs, output, svc_calls, calls, invoked>>

\* MapResBodyMiddleware::new_transform(&self, service)
NewTransform(f, s) ==
    /\ Len(services) < MaxServices
    /\ f \in 1..Len(factories)
    /\ s = 0 \/ s \in TopServices
    /\ LET r == NewTransformResult(f, s)
       IN /\ r.tag = "Ready" /\ r.val.tag = "Ok"
          /\ services' = Append(services, r.val.val)
    /\ UNCHANGED <<mappers, factories, futs, output, svc_calls, calls, invoked>>

\* MapResBodyService::call(&self, req), by the driver, for a new request
Call(s, r) ==
    /\ s \in TopServices
    /\ futs[r].status = "none"
    /\ \A q \in Requests : q < r => futs[q].status # "none"
    /\ LET fut == ServiceCall(s)
       IN /\ futs' = [futs EXCEPT ![r] =
                        [status |-> "inflight", svc |-> s, chain |-> fut.chain,
                         hfut |-> fut.hfut]]
          /\ svc_calls' = [svc_calls EXCEPT ![r] =
                        [x \in 0..MaxServices |-> @[x] + Count(fut.called, x)]]
    /\ UNCHANGED <<mappers, factories, services, output, calls, invoked>>

\* The handler's future becomes ready with a response or an error.
HandlerResolve(r, result) ==
    /\ futs[r].status = "inflight"
    /\ futs[r].hfut.called
    /\ ~IsSome(futs[r].hfut.result)
    /\ futs' = [futs EXCEPT ![r].hfut.result = Some(result)]
    /\ UNCHANGED <<mappers, factories, services, output, svc_calls, calls, invoked>>

\* A mapper's future that was not ready when first polled becomes ready.
FnResolve(r, k) ==
    /\ futs[r].status = "inflight"
    /\ k \in 1..Len(futs[r].chain)
    /\ futs[r].chain[k].state = "Fn"
    /\ ~Unwrap(futs[r].chain[k].fut).ready
    /\ futs' = [futs EXCEPT ![r].chain[k].fut = Some([Unwrap(@) EXCEPT !.ready = TRUE])]
    /\ UNCHANGED <<mappers, factories, services, output, svc_calls, calls, invoked>>

\* a poll that polls the handler future of another request
Poll_WrongInner(r) ==
    /\ futs[r].status = "inflight"
    /\ \E imm \in [1..Len(futs[r].chain) -> BOOLEAN] :
         LET c == futs[r].chain
             others == {q \in Requests : q # r /\ futs[q].hfut.called}
             h == IF others = {} THEN futs[r].hfut
                  ELSE futs[CHOOSE q \in others : TRUE].hfut
             p == PollFut(Len(c), c, h, imm)
         IN /\ futs' = [futs EXCEPT ![r] =
                          [@ EXCEPT !.status = CASE p.res.tag = "Ready" -> "done"
                                                   [] p.res.tag = "Pending" -> "inflight"
                                                   [] OTHER -> "panicked",
                                    !.chain = p.chain]]
            /\ output' = IF p.res.tag = "Ready"
                         THEN [output EXCEPT ![r] = Some(p.res.val)]
                         ELSE output
            /\ calls' = Counted(p.inv)
            /\ invoked' = [invoked EXCEPT ![r] = @ \o p.inv]
    /\ UNCHANGED <<mappers, factories, services, svc_calls>>

\* The driver polls the request's future (the outermost MapResBodyFut).
Poll(r) ==
    /\ futs[r].status = "inflight"
    /\ \E imm \in [1..Len(futs[r].chain) -> BOOLEAN] :
         LET c == futs[r].chain
             p == PollFut(Len(c), c, futs[r].hfut, imm)
         IN /\ futs' = [futs EXCEPT ![r] =
                          [@ EXCEPT !.status = CASE p.res.tag = "Ready" -> "done"
                                                   [] p.res.tag = "Pending" -> "inflight"
                                                   [] OTHER -> "panicked",
                                    !.chain = p.chain, !.hfut = p.hfut]]
            /\ output' = IF p.res.tag = "Ready"
                         THEN [output EXCEPT ![r] = Some(p.res.val)]
                         ELSE output
            /\ calls' = Counted(p.inv)
            /\ invoked' = [invoked EXCEPT ![r] = @ \o p.inv]
    /\ UNCHANGED <<mappers, factories, services, svc_calls>>

\* a drop that answers the driver with an error for the cancelled request
Drop_Emits(r) ==
    /\ futs[r].status \in {"inflight", "done"}
    /\ futs' = [futs EXCEPT ![r] =
                  [@ EXCEPT !.status = IF @ = "inflight" THEN "dropped" ELSE "released",
                            !.chain = <<>>, !.hfut = NoHandlerFut]]
    /\ output' = [output EXCEPT ![r] = IF @ = None THEN Some(Err(SvcError)) ELSE @]
    /\ UNCHANGED <<mappers, factories, services, svc_calls, calls, invoked>>

\* The driver drops the request's future: in flight (cancellation) or after
\* it completed.
Drop(r) ==
    /\ futs[r].status \in {"inflight", "done"}
    /\ futs' = [futs EXCEPT ![r] =
                  [@ EXCEPT !.status = IF @ = "inflight" THEN "dropped" ELSE "released",
                            !.chain = <<>>, !.hfut = NoHandlerFut]]
    /\ UNCHANGED <<mappers, factories, services, output, svc_calls, calls, invoked>>

\* The server builds its middleware stack at startup, before it serves.
Startup == \A r \in Requests : futs[r].status = "none"

\* No request is in flight: the driver of Spec serves one request at a time.
Idle == \A r \in Requests : futs[r].status # "inflight"

Next ==
    \/ \E kind \in FnKinds : Startup /\ MapResponseBody(kind) /\ UNCHANGED dvars
    \/ \E f \in 1..MaxFactories, s \in 0..MaxServices :
           Startup /\ NewTransform(f, s) /\ UNCHANGED dvars
    \/ \E s \in 1..MaxServices, r \in Requests : Idle /\ Call(s, r) /\ UNCHANGED dvars
    \/ \E r \in Requests : \E result \in HandlerResults(r) :
           HandlerResolve(r, result) /\ UNCHANGED dvars
    \/ \E r \in Requests, k \in 1..MaxServices : FnResolve(r, k) /\ UNCHANGED dvars
    \/ \E r \in Requests : Poll(r) /\ UNCHANGED dvars
    \/ \E r \in Requests : Drop(r) /\ UNCHANGED dvars

Spec == Init /\ [][Next]_vars

\* Several requests in flight together on the services of a small stack: the
\* driver interleaves their polls in any order.
InitConc ==
    /\ mappers = <<>>
    /\ factories = <<>>
    /\ services = <<>>
    /\ futs = [r \in 1..ConcRequests |-> NoFut]
    /\ output = [r \in 1..ConcRequests |-> None]
    /\ svc_calls = [r \in 1..ConcRequests |-> [s \in 0..MaxServices |-> 0]]
    /\ calls = [p \in 1..MaxFactories |-> 0]
    /\ invoked = [r \in 1..ConcRequests |-> <<>>]
    /\ app_data = <<NoAppData, NoAppData>>
    /\ lookup = NoLookup

NextConc ==
    \/ \E kind \in FnKinds :
           /\ Startup /\ Len(factories) < ConcFactories
           /\ MapResponseBody(kind) /\ UNCHANGED dvars
    \/ \E f \in 1..MaxFactories, s \in 0..MaxServices :
           /\ Startup /\ Len(services) < ConcServices
           /\ NewTransform(f, s) /\ UNCHANGED dvars
    \/ \E s \in 1..MaxServices, r \in Requests : Call(s, r) /\ UNCHANGED dvars
    \/ \E r \in Requests : \E result \in HandlerResults(r) :
           HandlerResolve(r, result) /\ UNCHANGED dvars
    \/ \E r \in Requests, k \in 1..MaxServices : FnResolve(r, k) /\ UNCHANGED dvars
    \/ \E r \in Requests : Poll(r) /\ UNCHANGED dvars
    \/ \E r \in Requests : Drop(r) /\ UNCHANGED dvars

SpecConc == InitConc /\ [][NextConc]_vars

\* The application configured with LocalData values and serving requests to
\* a handler that extracts LocalData<T>.
\* The driver of the claim on completion: it keeps polling a future in
\* flight, the handler's future eventually resolves and so does every mapper
\* future that was created. Dropping stays possible and is never forced.
Fairness ==
    \A r \in 1..MaxRequests :
        /\ WF_vars(Poll(r))
        /\ WF_vars(\E result \in HandlerResults(r) : HandlerResolve(r, result))
        /\ \A k \in 1..LiveServices : WF_vars(FnResolve(r, k))

NextLive ==
    \/ \E kind \in FnKinds :
           /\ Startup /\ Len(factories) < LiveFactories
           /\ MapResponseBody(kind) /\ UNCHANGED dvars
    \/ \E f \in 1..LiveFactories, s \in 0..LiveServices :
           /\ Startup /\ Len(services) < LiveServices
           /\ NewTransform(f, s) /\ UNCHANGED dvars
    \/ \E s \in 1..LiveServices, r \in Requests : Idle /\ Call(s, r) /\ UNCHANGED dvars
    \/ \E r \in Requests : \E result \in HandlerResults(r) :
           HandlerResolve(r, result) /\ UNCHANGED dvars
    \/ \E r \in Requests, k \in 1..LiveServices : FnResolve(r, k) /\ UNCHANGED dvars
    \/ \E r \in Requests : Poll(r) /\ UNCHANGED dvars
    \/ \E r \in Requests : Drop(r) /\ UNCHANGED dvars

SpecLive == Init /\ [][NextLive]_vars /\ Fairness

NextData ==
    \/ \E scope \in 1..2, ty \in Types, item \in Values :
           AppData(scope, ty, item) /\ UNCHANGED vars
    \/ \E ty \in Types : Extract(ty) /\ UNCHANGED vars

SpecData == Init /\ [][NextData]_<<vars, dvars>>

\* ------------------------------------------------------------- properties
Chain(r) == futs[r].chain
Levels(r) == 1..Len(Chain(r))
Kind(r, k) == mappers[Chain(r)[k].mw_fn]

\* what the layer beneath level k resolved with (None: not resolved)
InnerOut(r, k) == IF k = 1 THEN futs[r].hfut.result ELSE Chain(r)[k - 1].out
InnerOk(r, k) == IsSome(InnerOut(r, k)) /\ Unwrap(InnerOut(r, k)).tag = "Ok"
InnerErr(r, k) == IsSome(InnerOut(r, k)) /\ Unwrap(InnerOut(r, k)).tag = "Err"

\* what the future of level k returned Ready with; for the outermost future,
\* what the driver received
Returned(r, k) == IF k = Len(Chain(r)) THEN output[r] ELSE Chain(r)[k].out
ReturnedOk(r, k) == IsSome(Returned(r, k)) /\ Unwrap(Returned(r, k)).tag = "Ok"
ReturnedErr(r, k) == IsSome(Returned(r, k)) /\ Unwrap(Returned(r, k)).tag = "Err"

\* how often the mapper of level k was invoked for request r
Invocations(r, k) == Cardinality({i \in 1..Len(invoked[r]) : invoked[r][i].k = k})

Done(r) == futs[r].status = "done"

\* C1: replacement transform: behind a mapper that always resolves to foo,
\* whenever the inner layer succeeded, whatever its body, the completed
\* future returned Ok with the body foo.
C1_ReplacementTransform ==
    \A r \in Requests : \A k \in Levels(r) :
        (Done(r) /\ Kind(r, k) = "foo" /\ InnerOk(r, k))
            => /\ ReturnedOk(r, k)
               /\ Unwrap(Returned(r, k)).val.res.body = Foo

C1_Witness ==
    \E r \in Requests : \E k \in Levels(r) :
        /\ Done(r) /\ Kind(r, k) = "foo" /\ InnerOk(r, k)
        /\ Unwrap(InnerOut(r, k)).val.res.body = <<"a">>
        /\ ReturnedOk(r, k)
        /\ Unwrap(Returned(r, k)).val.res.body = Foo

\* C2: identity transform: behind a mapper that resolves to its input, the
\* completed future returned Ok with the inner response's body, status and
\* headers.
C2_IdentityTransform ==
    \A r \in Requests : \A k \in Levels(r) :
        (Done(r) /\ Kind(r, k) = "noop" /\ InnerOk(r, k))
            => /\ ReturnedOk(r, k)
               /\ Unwrap(Returned(r, k)).val.res.body = Unwrap(InnerOut(r, k)).val.res.body
               /\ Unwrap(Returned(r, k)).val.res.head = Unwrap(InnerOut(r, k)).val.res.head

C2_Witness ==
    \E r \in Requests : \E k \in Levels(r) :
        /\ Done(r) /\ Kind(r, k) = "noop" /\ InnerOk(r, k) /\ ReturnedOk(r, k)
        /\ Unwrap(InnerOut(r, k)).val.res.body = <<"a">>
        /\ Unwrap(InnerOut(r, k)).val.res.head.status = "404"
        /\ Unwrap(Returned(r, k)).val.res = Unwrap(InnerOut(r, k)).val.res

\* C3: head preservation: every response a future returned carries the head
\* and the request handle of the inner layer's response, and as body what
\* the mapper resolved to for the inner body.
C3_HeadPreservation ==
    \A r \in Requests : \A k \in Levels(r) :
        ReturnedOk(r, k)
            => /\ InnerOk(r, k)
               /\ LET in == Unwrap(InnerOut(r, k)).val
                      got == Unwrap(Returned(r, k)).val
                      mapped == MapperOutput(Kind(r, k), Chain(r)[k].mw_fn, in.res.body)
                  IN /\ got.res.head = in.res.head
                     /\ got.req = in.req
                     /\ mapped.tag = "Ok"
                     /\ got.res.body = mapped.val

C3_Witness ==
    \E r \in Requests : \E k \in Levels(r) :
        /\ ReturnedOk(r, k) /\ InnerOk(r, k)
        /\ Kind(r, k) = "append"
        /\ Unwrap(InnerOut(r, k)).val.res.head.status = "404"
        /\ Unwrap(Returned(r, k)).val.res.head.status = "404"
        /\ Unwrap(Returned(r, k)).val.req = r
        /\ Unwrap(Returned(r, k)).val.res.body # Unwrap(InnerOut(r, k)).val.res.body

\* C4: error short-circuit: once the inner layer's future resolved with a
\* failure, the future above it is still in Svc (it never enters Fn), its
\* mapper was not invoked, and what it returns is that same error.
C4_ErrorShortCircuit ==
    \A r \in Requests : \A k \in Levels(r) :
        InnerErr(r, k)
            => /\ Chain(r)[k].state = "Svc"
               /\ Invocations(r, k) = 0
               /\ IsSome(Returned(r, k)) => Returned(r, k) = InnerOut(r, k)
               /\ Done(r) => Returned(r, k) = InnerOut(r, k)
               /\ (k = 1 => invoked[r] = <<>>)

C4_Witness ==
    \E r \in Requests :
        /\ Done(r) /\ Len(Chain(r)) >= 2
        /\ InnerErr(r, 1)
        /\ \A k \in Levels(r) : Returned(r, k) = Some(Err(SvcError))
        /\ invoked[r] = <<>>

\* C5: transform error: once a mapper's future resolved with a failure and
\* the request's future completed, the future returned exactly that error;
\* no response was built: the stored head and request handle are still in
\* the Fn state, never taken, and the mapper ran once.
C5_TransformError ==
    \A r \in Requests : \A k \in Levels(r) :
        (Done(r) /\ Chain(r)[k].state = "Fn" /\ Kind(r, k) = "fail")
            => /\ Returned(r, k) = Some(Err(FnError(Chain(r)[k].mw_fn)))
               /\ IsSome(Chain(r)[k].req) /\ IsSome(Chain(r)[k].res)
               /\ Invocations(r, k) = 1
               /\ output[r] = Some(Err(FnError(Chain(r)[k].mw_fn)))

C5_Witness ==
    \E r \in Requests : \E k \in Levels(r) :
        /\ Done(r) /\ Chain(r)[k].state = "Fn" /\ Kind(r, k) = "fail"
        /\ k < Len(Chain(r))
        /\ Unwrap(Chain(r)[k].res).head.status = "404"
        /\ output[r] = Some(Err(FnError(Chain(r)[k].mw_fn)))

\* C6: single invocation: for every request and every level, under every
\* sequence of polls, the mapper was invoked at most once; it was invoked
\* exactly once exactly when the future is in Fn, so once behind every
\* response returned; the mappers' call counters count these invocations.
C6_SingleInvocation ==
    /\ \A r \in Requests : \A k \in 1..Len(services) : Invocations(r, k) <= 1
    /\ \A r \in Requests : \A k \in Levels(r) :
          /\ Invocations(r, k) = 1 <=> Chain(r)[k].state = "Fn"
          /\ ReturnedOk(r, k) => Invocations(r, k) = 1
    /\ \A p \in DOMAIN calls :
          calls[p] = Cardinality({x \in Requests \X (1..Len(services)) :
                                    /\ x[2] <= Len(invoked[x[1]])
                                    /\ invoked[x[1]][x[2]].mw_fn = p})

C6_Witness ==
    \E r \in Requests :
        /\ Done(r) /\ Len(Chain(r)) >= 3
        /\ ReturnedOk(r, Len(Chain(r)))
        /\ \A k \in Levels(r) : Invocations(r, k) = 1
        /\ \E p \in DOMAIN calls : calls[p] = 2

\* the body a stack of services answers with when all its mappers succeed
RECURSIVE ComposedSvc(_, _)
ComposedSvc(s, body) ==
    IF s = 0 THEN body
    ELSE MapperOutput(mappers[services[s].mw_fn], services[s].mw_fn,
                      ComposedSvc(services[s].service, body)).val

KindsOf(r) == [k \in Levels(r) |-> Kind(r, k)]

\* C7: stacking: the body the driver receives is the outermost
\* (last-registered) mapper's output, each mapper having received the output
\* of the mapper beneath it; with identity, identity, foo around a handler
\* answering an empty body, it is foo.
C7_StackingResult ==
    \A r \in Requests :
        /\ \A k \in Levels(r) : k > 1 => Chain(r)[k - 1].svc < Chain(r)[k].svc
        /\ \A k \in Levels(r) :
              Chain(r)[k].state = "Fn" =>
                  Unwrap(Chain(r)[k].fut).body =
                      ComposedSvc(services[Chain(r)[k].svc].service,
                                  Unwrap(futs[r].hfut.result).val.res.body)
        /\ (Done(r) /\ ReturnedOk(r, Len(Chain(r)))) =>
              Unwrap(output[r]).val.res.body =
                  ComposedSvc(futs[r].svc, Unwrap(futs[r].hfut.result).val.res.body)
        /\ (Done(r) /\ KindsOf(r) = <<"noop", "noop", "foo">> /\ InnerOk(r, 1)) =>
              /\ ReturnedOk(r, Len(Chain(r)))
              /\ Unwrap(output[r]).val.res.body = Foo

C7_Witness ==
    \E r \in Requests :
        /\ Done(r) /\ KindsOf(r) = <<"noop", "noop", "foo">>
        /\ futs[r].hfut.result = Some(Ok(ServiceResponseNew(r, HttpResponse(
                                     [status |-> "200", headers |-> "h0"], <<>>))))
        /\ Unwrap(output[r]).val.res.body = Foo

\* the services (0: the handler) a call of service s reaches
RECURSIVE Below(_)
Below(s) == IF s = 0 THEN {0} ELSE {s} \cup Below(services[s].service)

\* C8: inner layer invoked exactly once: once a request was handed to a
\* service, every service of its stack and the handler have been called
\* exactly once with it, whatever the polls and however the exchange ends.
C8_InnerCalledOnce ==
    \A r \in Requests : \A s \in 0..Len(services) :
        svc_calls[r][s] =
            IF futs[r].status # "none" /\ s \in Below(futs[r].svc) THEN 1 ELSE 0

C8_Witness ==
    \E r \in Requests :
        /\ futs[r].status = "dropped"
        /\ Len(invoked[r]) = 1
        /\ Cardinality(Below(futs[r].svc)) = 3
        /\ \A s \in Below(futs[r].svc) : svc_calls[r][s] = 1

\* C9: cancellation safety: when the driver drops a future in flight, no
\* response was or will be emitted, the mappers invoked so far are those of
\* the futures in Fn (none while the innermost future awaits the handler),
\* each once, and no mapper is invoked for that request afterwards.
C9_CancellationSafety ==
    [][\A r \in Requests :
          /\ (futs[r].status = "inflight" /\ futs'[r].status = "dropped") =>
                /\ output[r] = None /\ output'[r] = None
                /\ invoked'[r] = invoked[r]
                /\ calls' = calls
                /\ \A k \in Levels(r) :
                      Invocations(r, k) = IF Chain(r)[k].state = "Fn" THEN 1 ELSE 0
          /\ futs[r].status = "dropped" =>
                /\ futs'[r].status = "dropped"
                /\ output'[r] = None
                /\ invoked'[r] = invoked[r]]_vars

C9_Witness ==
    \E r \in Requests :
        /\ futs[r].status = "dropped"
        /\ Len(invoked[r]) = 1
        /\ calls[invoked[r][1].mw_fn] = 1
        /\ output[r] = None

\* C10: factory attach: new_transform is Ready(Ok(..)) for every factory and
\* service, changes nothing but the set of services (no mapper and no
\* service is called), can be applied repeatedly to one factory, and every
\* service and every future holds the Rc its factory was constructed with.
C10_FactoryAttach ==
    [][/\ Len(services') > Len(services) =>
            /\ calls' = calls /\ svc_calls' = svc_calls /\ invoked' = invoked
            /\ mappers' = mappers /\ factories' = factories
            /\ futs' = futs /\ output' = output
       /\ \A f \in 1..Len(factories) : \A s \in {0} \cup TopServices :
            NewTransformResult(f, s).tag = "Ready" /\ NewTransformResult(f, s).val.tag = "Ok"
       /\ Len(mappers') = Len(factories')
       /\ \A i \in 1..Len(services') :
            services'[i].mw_fn = factories'[services'[i].factory].mw_fn
       /\ \A r \in Requests : \A k \in 1..Len(futs'[r].chain) :
            futs'[r].chain[k].mw_fn = services'[futs'[r].chain[k].svc].mw_fn]_vars

C10_Witness ==
    \E r \in Requests :
        /\ futs[r].status = "inflight"
        /\ Len(factories) = 2
        /\ Len(Chain(r)) = 2
        /\ services[Chain(r)[1].svc].factory = 2
        /\ services[Chain(r)[2].svc].factory = 2
        /\ Chain(r)[1].mw_fn = factories[2].mw_fn
        /\ Chain(r)[2].mw_fn = factories[2].mw_fn
        /\ calls[factories[2].mw_fn] = 1

\* C11: LocalData lookup: an extraction of LocalData<T> returns the value
\* registered under exactly T (the innermost one) and the handler answers
\* 200; with no value under T, whatever is registered under other types, it
\* fails with the internal-server-error, logs the type, and the response is
\* a 500; a lookup never changes the registry.
C11_LocalDataLookup ==
    [][lookup' # lookup =>
          /\ app_data' = app_data
          /\ LET ty == lookup'.ty
                 registered == {s \in 1..2 : IsSome(app_data[s][ty])}
             IN IF registered # {}
                THEN /\ lookup'.result =
                          Some(Ok(Unwrap(app_data[CHOOSE s \in registered :
                                                    \A u \in registered : u <= s][ty])))
                     /\ Unwrap(lookup'.result).val.ty = ty
                     /\ lookup'.status = "200"
                     /\ lookup'.logged = None
                ELSE /\ lookup'.result = Some(Err(InternalServerError))
                     /\ lookup'.status = "500"
                     /\ lookup'.logged = Some(ty)]_<<vars, dvars>>

C11_Witness ==
    /\ lookup.ty = "usize"
    /\ lookup.status = "500"
    /\ lookup.result = Some(Err(InternalServerError))
    /\ app_data[1]["u32"] = Some(LocalDataNew("u32", 10))
    /\ app_data[1]["usize"] = None /\ app_data[2]["usize"] = None

\* C12: phase ordering: a future starts in Svc; it goes from Svc to Fn only
\* in the poll in which the layer beneath resolves with Ok, never from Fn
\* back to Svc; its mapper is invoked in that step and in no other, so a
\* future in Fn always has a successfully completed inner layer.
C12_PhaseOrdering ==
    [][\A r \in Requests :
          /\ (Len(futs[r].chain) = 0) =>
                \A k \in 1..Len(futs'[r].chain) : futs'[r].chain[k].state = "Svc"
          /\ (Len(futs'[r].chain) = 0) => invoked'[r] = invoked[r]
          /\ \A k \in 1..Len(futs'[r].chain) :
                futs'[r].chain[k].state = "Fn" => InnerOk(r, k)'
          /\ \A k \in Levels(r) : k <= Len(futs'[r].chain) =>
                /\ Chain(r)[k].state = "Fn" =>
                      /\ futs'[r].chain[k].state = "Fn"
                      /\ Invocations(r, k)' = Invocations(r, k)
                /\ (Chain(r)[k].state = "Svc" /\ futs'[r].chain[k].state = "Fn") =>
                      /\ k > 1 => Chain(r)[k - 1].out = None
                      /\ Invocations(r, k) = 0 /\ Invocations(r, k)' = 1
                /\ (Chain(r)[k].state = "Svc" /\ futs'[r].chain[k].state = "Svc") =>
                      Invocations(r, k)' = 0]_vars

C12_Witness ==
    \E r \in Requests :
        /\ futs[r].status = "inflight"
        /\ Len(Chain(r)) = 2
        /\ Chain(r)[1].state = "Fn" /\ ReturnedOk(r, 1)
        /\ Chain(r)[2].state = "Fn" /\ ~Unwrap(Chain(r)[2].fut).ready
        /\ Invocations(r, 1) = 1 /\ Invocations(r, 2) = 1

\* C13: stacked invocation order: the mappers of one request run innermost
\* first, each once, after the handler was called and answered Ok; a mapper
\* runs only when the layer beneath it completed with Ok, and above a layer
\* that failed no mapper runs.
C13_StackedOrder ==
    \A r \in Requests :
        /\ \A i \in 1..Len(invoked[r]) : invoked[r][i].k = i
        /\ invoked[r] # <<>> => svc_calls[r][0] = 1
        /\ \A k \in Levels(r) :
              /\ Invocations(r, k) = 1 => InnerOk(r, k)
              /\ InnerErr(r, k) =>
                    \A j \in Levels(r) : j >= k => Invocations(r, j) = 0

C13_Witness ==
    \E r \in Requests :
        /\ Done(r) /\ Len(Chain(r)) = 3
        /\ Kind(r, 1) = "noop" /\ Kind(r, 2) = "fail"
        /\ Len(invoked[r]) = 2
        /\ invoked[r][1].k = 1 /\ invoked[r][2].k = 2
        /\ InnerErr(r, 3) /\ Invocations(r, 3) = 0

\* C14: same-turn re-poll: a future whose mapper's future was ready when
\* first polled has returned its final result (the response or the mapper's
\* error) in the very poll that invoked the mapper: no state shows it in Fn
\* without its result, and the outermost such future has completed.
C14_SameTurnRepoll ==
    \A r \in Requests : \A k \in Levels(r) :
        (Chain(r)[k].state = "Fn" /\ Unwrap(Chain(r)[k].fut).first)
            => /\ IsSome(Chain(r)[k].out)
               /\ IsSome(Returned(r, k))
               /\ Unwrap(Returned(r, k)).tag = "Err" =>
                     Returned(r, k) = Some(Err(FnError(Chain(r)[k].mw_fn)))
               /\ k = Len(Chain(r)) => Done(r)

C14_Witness ==
    \E r \in Requests :
        /\ Done(r) /\ Len(Chain(r)) = 3
        /\ \A k \in Levels(r) : Chain(r)[k].state = "Fn" /\ Unwrap(Chain(r)[k].fut).first
        /\ ReturnedOk(r, 3)

\* the futures of request r a poll by the driver reaches: the outermost one,
\* and each future all of whose wrapping futures are still in Svc
Pollable(r, k) ==
    /\ futs[r].status = "inflight"
    /\ k \in Levels(r)
    /\ \A j \in Levels(r) : j > k => Chain(r)[j].state = "Svc"

\* C15: two suspension points: a poll returns Pending exactly when it leaves
\* the future in Svc with the inner future not ready, or in Fn with the
\* mapper's future not ready; such a poll leaves the future (phase, stored
\* req and res) and its mapper's invocations as they were, unless it made
\* the Svc-to-Fn step itself, invoking the mapper once.
C15_TwoSuspensionPoints ==
    \A r \in Requests : \A k \in 1..Len(services) :
        Pollable(r, k) =>
            \A imm \in [Levels(r) -> BOOLEAN] :
                LET c == Chain(r)
                    p == PollFut(k, c, futs[r].hfut, imm)
                    after == p.chain[k]
                    innerReady == IF k = 1 THEN IsSome(futs[r].hfut.result)
                                  ELSE IsSome(p.chain[k - 1].out)
                    ran == Cardinality({i \in 1..Len(p.inv) : p.inv[i].k = k})
                IN /\ p.res.tag \in {"Pending", "Ready"}
                   /\ p.res.tag = "Pending" <=>
                         \/ after.state = "Svc" /\ ~innerReady
                         \/ after.state = "Fn" /\ ~Unwrap(after.fut).ready
                   /\ p.res.tag = "Pending" =>
                         IF after.state = c[k].state
                         THEN after = c[k] /\ ran = 0
                         ELSE /\ c[k].state = "Svc" /\ after.state = "Fn"
                              /\ ran = 1
                              /\ IsSome(after.req) /\ IsSome(after.res)

C15_Witness ==
    \E r \in Requests :
        /\ Pollable(r, 2) /\ Len(Chain(r)) = 2
        /\ Chain(r)[1].state = "Fn" /\ Unwrap(Chain(r)[1].fut).ready
        /\ Chain(r)[1].out = None
        /\ \E imm \in [Levels(r) -> BOOLEAN] :
              LET p == PollFut(2, Chain(r), futs[r].hfut, imm)
              IN p.res.tag = "Pending" /\ p.chain[2].state = "Fn"

\* the requests whose exchange state, output or invocation log a step changes
Touched ==
    {r \in Requests : futs'[r] # futs[r] \/ output'[r] # output[r]
                          \/ invoked'[r] # invoked[r]}

\* every response of request r is built from r's own inner response
OwnResponse(r) ==
    \A k \in Levels(r) :
        /\ Invocations(r, k) <= 1
        /\ (Done(r) /\ InnerOk(r, k)) => Invocations(r, k) = 1
        /\ ReturnedOk(r, k) =>
              /\ InnerOk(r, k)
              /\ LET in == Unwrap(InnerOut(r, k)).val
                     got == Unwrap(Returned(r, k)).val
                 IN /\ got.req = r /\ in.req = r
                    /\ got.res.head = in.res.head
                    /\ got.res.body =
                          MapperOutput(Kind(r, k), Chain(r)[k].mw_fn, in.res.body).val

\* C16: per-request isolation: with several requests in flight on the same
\* services and their polls interleaved in any order, a step changes the
\* exchange state of one request only, every response combines the head and
\* request handle of its own inner response with the mapper's output for its
\* own inner body, and the mapper ran once for each request whose inner
\* layer succeeded.
C16_PerRequestIsolation ==
    [][/\ Cardinality(Touched) <= 1
       /\ \A r \in Requests : OwnResponse(r)']_vars

C16_Witness ==
    /\ futs[1].status = "inflight" /\ Len(Chain(1)) = 1
    /\ futs[2].svc = futs[1].svc
    /\ Chain(1)[1].state = "Fn" /\ Chain(1)[1].out = None
    /\ Unwrap(Chain(1)[1].res).head.status = "404"
    /\ Done(2) /\ ReturnedOk(2, 1)
    /\ Unwrap(output[2]).val.req = 2
    /\ Unwrap(output[2]).val.res.head.status = "200"
    /\ Invocations(1, 1) = 1 /\ Invocations(2, 1) = 1

\* the calls of a mapper that are under way: invoked, the future not yet
\* resolved and not dropped
Unresolved(r, k) == Chain(r)[k].state = "Fn" /\ ~Unwrap(Chain(r)[k].fut).ready
UnresolvedCalls(p) ==
    {x \in Requests \X (1..Len(services)) :
        /\ x[2] \in Levels(x[1])
        /\ Chain(x[1])[x[2]].mw_fn = p
        /\ Unresolved(x[1], x[2])}

\* C17 as claimed: there are never two overlapping calls of one mapper, also
\* with several requests in flight.
C17_NoOverlappingCalls ==
    \A p \in 1..Len(mappers) : Cardinality(UnresolvedCalls(p)) <= 1

\* the invocations for request r whose future has not yet returned its result
OpenCalls(r) ==
    {i \in 1..Len(invoked[r]) :
        /\ invoked[r][i].k \in Levels(r)
        /\ Chain(r)[invoked[r][i].k].out = None}

\* C17, amended: within one request there are never two overlapping calls of
\* mappers (a call lasting from its invocation until its future has
\* returned its result or is dropped); calls made for different requests in
\* flight do overlap.
C17_NoOverlapWithinRequest ==
    \A r \in Requests : Cardinality(OpenCalls(r)) <= 1

C17_Witness ==
    /\ futs[1].status = "inflight" /\ futs[2].status = "inflight"
    /\ futs[1].svc = futs[2].svc
    /\ Len(Chain(1)) = 2
    /\ Unresolved(1, 2) /\ Unresolved(2, 1)
    /\ Chain(1)[2].mw_fn = Chain(2)[1].mw_fn
    /\ Cardinality(OpenCalls(1)) = 1 /\ Cardinality(OpenCalls(2)) = 1

\* the two slots of level k of request r, in every state
SlotsHeld(r, k) ==
    LET e == Chain(r)[k]
    IN /\ IsSome(e.req) <=> IsSome(e.res)
       /\ (e.state = "Svc") => ~IsSome(e.req)
       /\ (e.state = "Fn" /\ e.out = None) => (IsSome(e.req) /\ IsSome(e.res))
       /\ (e.state = "Fn" /\ ~IsSome(e.req)) =>
             (IsSome(e.out) /\ Unwrap(e.out).tag = "Ok")
       /\ (IsSome(e.out) /\ Unwrap(e.out).tag = "Ok") => ~IsSome(e.req)

\* the step in which the slots of level k of request r are emptied
SlotsTaken(r, k) ==
    /\ k \in Levels(r) /\ k \in Levels(r)'
    /\ IsSome(Chain(r)[k].req) /\ ~IsSome(Chain(r)[k].req')

\* C18: take exactly once: a level that is in Fn and has not produced its
\* result holds both the head and the request handle; the two are taken
\* together, only in the poll in which the mapper future resolves with
\* success, and that poll returns the taken head and handle with the new
\* body; a request's output, once produced, never changes; and no poll
\* finds an empty slot, the driver never polling a completed future.
C18_TakeExactlyOnce ==
    [][/\ \A r \in Requests :
            /\ futs[r].status' # "panicked"
            /\ \A k \in Levels(r)' : SlotsHeld(r, k)'
            /\ IsSome(output[r]) => output'[r] = output[r]
            /\ \A k \in 1..MaxServices : SlotsTaken(r, k) =>
                  /\ ~IsSome(Chain(r)[k].res')
                  /\ Chain(r)[k].out = None
                  /\ ReturnedOk(r, k)'
                  /\ FnFutPoll(Unwrap(Chain(r)[k].fut')).tag = "Ready"
                  /\ Unwrap(Returned(r, k)').val.req = Unwrap(Chain(r)[k].req)
                  /\ Unwrap(Returned(r, k)').val.res.head = Unwrap(Chain(r)[k].res).head]_vars

C18_Witness ==
    \E r \in Requests :
        /\ futs[r].status = "inflight" /\ Len(Chain(r)) = 3
        /\ ReturnedOk(r, 1) /\ ~IsSome(Chain(r)[1].req) /\ ~IsSome(Chain(r)[1].res)
        /\ Chain(r)[2].state = "Fn" /\ Chain(r)[2].out = None
        /\ IsSome(Chain(r)[2].req) /\ IsSome(Chain(r)[2].res)
        /\ Chain(r)[3].state = "Svc"

\* level k of request r waits in Svc although the layer beneath has resolved,
\* or in Fn although the mapper future has resolved
AwaitedReady(r, k) ==
    /\ futs[r].status = "inflight" /\ k \in Levels(r)
    /\ \/ Chain(r)[k].state = "Svc" /\ IsSome(InnerOut(r, k))
       \/ /\ Chain(r)[k].state = "Fn" /\ Chain(r)[k].out = None
          /\ Unwrap(Chain(r)[k].fut).ready

Completed(r) == Done(r) /\ IsSome(output[r]) /\ (ReturnedOk(r, Len(Chain(r))) \/ ReturnedErr(r, Len(Chain(r))))
Dropped(r) == futs[r].status = "dropped"

\* C19: eventual completion: under a driver that keeps polling, with the
\* handler's future and every created mapper future eventually resolving,
\* a request in flight that is not dropped eventually completes with a
\* response or an error, and no level stays in Svc or in Fn once the future
\* it awaits is ready.
C19_EventualCompletion ==
    \A r \in 1..MaxRequests :
        /\ (futs[r].status = "inflight") ~> (Completed(r) \/ Dropped(r))
        /\ \A k \in 1..LiveServices :
              AwaitedReady(r, k) ~> (Dropped(r) \/ (k \in Levels(r) /\ IsSome(Returned(r, k))))

C19_Witness ==
    \E r \in 1..MaxRequests :
        /\ Completed(r) /\ Len(Chain(r)) = 2
        /\ \A k \in Levels(r) :
              /\ Chain(r)[k].state = "Fn"
              /\ ~Unwrap(Chain(r)[k].fut).first
        /\ ReturnedOk(r, 2)

====
